---------------------------- MODULE Spec2Model ----------------------------
(***************************************************************************)
(* Model of torchfem: the Solid engine (src/torchfem/solid.py) and the     *)
(* material stiffness tensors (src/torchfem/materials.py).                 *)
(*                                                                         *)
(* Floating point tensors are modelled by exact rationals <<num, den>>     *)
(* (den > 0, lowest terms), tensors by functions over 0-based index        *)
(* ranges, exactly as torch indexes them.                                  *)
(***************************************************************************)
EXTENDS Integers, Sequences, FiniteSets, TLC

(***************************************************************************)
(* Exact arithmetic standing for torch's float arithmetic.                 *)
(***************************************************************************)
Abs(x) == IF x < 0 THEN -x ELSE x

RECURSIVE Gcd(_, _)
Gcd(a, b) == IF b = 0 THEN a ELSE Gcd(b, a % b)

Rat(n, d) ==
    LET g == Gcd(Abs(n), Abs(d))
        s == IF d < 0 THEN -1 ELSE 1
    IN  <<(s * n) \div g, (s * d) \div g>>

RInt(n) == <<n, 1>>
RZero == <<0, 1>>
ROne == <<1, 1>>
RNeg(a) == <<-a[1], a[2]>>
RAdd(a, b) ==
    IF a[1] = 0 THEN b
    ELSE IF b[1] = 0 THEN a
    ELSE IF a[2] = b[2] THEN Rat(a[1] + b[1], a[2])
    ELSE LET g == Gcd(a[2], b[2])
         IN  Rat(a[1] * (b[2] \div g) + b[1] * (a[2] \div g), (a[2] \div g) * b[2])
RSub(a, b) == RAdd(a, RNeg(b))
RMul(a, b) ==
    IF a[1] = 0 \/ b[1] = 0 THEN RZero
    ELSE LET g1 == Gcd(Abs(a[1]), b[2])
             g2 == Gcd(Abs(b[1]), a[2])
         IN  <<(a[1] \div g1) * (b[1] \div g2), (a[2] \div g2) * (b[2] \div g1)>>
RDiv(a, b) == RMul(a, IF b[1] < 0 THEN <<-b[2], -b[1]>> ELSE <<b[2], b[1]>>)
RLeq(a, b) == a[1] * b[2] <= b[1] * a[2]
RLess(a, b) == a[1] * b[2] < b[1] * a[2]

\* sum of f[0] .. f[n-1]
RECURSIVE RSumTo(_, _)
RSumTo(f, n) == IF n = 0 THEN RZero ELSE RAdd(RSumTo(f, n - 1), f[n - 1])

\* torch.zeros of one, two and three dimensions
Zeros1(n) == [a \in 0..(n - 1) |-> RZero]
Zeros2(n, m) == [a \in 0..(n - 1) |-> Zeros1(m)]

\* tensor.ravel() / reshape of an (n, m) tensor to a flat one, row-major
Ravel2(t, n, m) == [x \in 0..(n * m - 1) |-> t[x \div m][x % m]]
\* flat.reshape((-1, m))
Reshape2(v, n, m) == [a \in 0..(n - 1) |-> [c \in 0..(m - 1) |-> v[m * a + c]]]

\* scalar * tensor, tensor + tensor, tensor - tensor
Scale1(s, v) == [x \in DOMAIN v |-> RMul(s, v[x])]
Add1(v, w) == [x \in DOMAIN v |-> RAdd(v[x], w[x])]
Sub1(v, w) == [x \in DOMAIN v |-> RSub(v[x], w[x])]
Add2(v, w) == [x \in DOMAIN v |-> Add1(v[x], w[x])]

\* matrix (r x m) times vector (m)
MatVec(M, v, r, m) ==
    [a \in 0..(r - 1) |-> RSumTo([b \in 0..(m - 1) |-> RMul(M[a][b], v[b])], m)]
\* matrix (r x m) times matrix (m x c)
MatMul(A, B, r, m, c) ==
    [a \in 0..(r - 1) |-> [b \in 0..(c - 1) |->
        RSumTo([x \in 0..(m - 1) |-> RMul(A[a][x], B[x][b])], m)]]
\* matrix.transpose of an (r x c) matrix
Transpose(A, r, c) == [b \in 0..(c - 1) |-> [a \in 0..(r - 1) |-> A[a][b]]]

\* torch.linalg.det of a 3 x 3 matrix
Det3(J) ==
    RAdd(RSub(RMul(J[0][0], RSub(RMul(J[1][1], J[2][2]), RMul(J[1][2], J[2][1]))),
              RMul(J[0][1], RSub(RMul(J[1][0], J[2][2]), RMul(J[1][2], J[2][0])))),
         RMul(J[0][2], RSub(RMul(J[1][0], J[2][1]), RMul(J[1][1], J[2][0]))))

\* torch.linalg.inv of a 3 x 3 matrix with non-zero determinant
Inv3(J) ==
    LET d == Det3(J)
        Cof(a, b) ==
            LET r1 == (a + 1) % 3
                r2 == (a + 2) % 3
                c1 == (b + 1) % 3
                c2 == (b + 2) % 3
            IN  RSub(RMul(J[r1][c1], J[r2][c2]), RMul(J[r1][c2], J[r2][c1]))
    IN  [a \in 0..2 |-> [b \in 0..2 |-> RDiv(Cof(b, a), d)]]


\* 0-based view of a tuple: a tensor built from a Python list
ZeroBased(t) == [a \in 0..(Len(t) - 1) |-> t[a + 1]]

\* materialise a tensor expression (torch evaluates eagerly)
Tensor(t) == IF t = t THEN t ELSE t

\* the value of a local name that has not been assigned yet
Unbound == <<>>

VARIABLES
    pc, err,
    \* the fields of a Solid
    nodes, elements, material, n_dofs, n_elem, forces, displacements,
    constraints, etype, indices,
    \* the arguments of Solid.solve
    increments, max_iter, tol,
    \* the locals of Solid.solve
    con, epsilon, sigma, f, u, du, i, j, F_ext, DU,
    k, f_int, epsilon_new, sigma_new, K, F_int, residual, res_norm_sq,
    \* what solve returned, and what the call before it returned
    ret, prev,
    \* calls made so far by the running solve
    n_integrate, n_assemble_stiffness, n_assemble_force, n_sparse_solve,
    \* an Orthotropic material and the matrix its C() returned
    ortho, C_voigt

solidVars == <<nodes, elements, material, n_dofs, n_elem, forces, displacements,
               constraints, etype, indices>>
argVars == <<increments, max_iter, tol>>
histVars == <<epsilon, sigma>>
outVars == <<f, u>>
loopVars == <<i, j, F_ext, DU>>
stepVars == <<k, f_int, epsilon_new, sigma_new>>
asmVars == <<K, F_int>>
resVars == <<residual, res_norm_sq>>
countVars == <<n_integrate, n_assemble_stiffness, n_assemble_force, n_sparse_solve>>
matVars == <<ortho, C_voigt>>
vars == <<pc, err, solidVars, argVars, con, histVars, outVars, du, loopVars,
          stepVars, asmVars, resVars, ret, prev, countVars, matVars>>

(***************************************************************************)
(* Element types (torchfem.elements).  Only the linear tetrahedron is      *)
(* modelled numerically.                                                   *)
(***************************************************************************)
NoEtype == "unset"

\* Tetra1.nodes
EtypeNodes == CASE etype = "Tetra1" -> 4
                [] etype = "Hexa1" -> 8
                [] etype = "Tetra2" -> 10
                [] etype = "Hexa2" -> 20

\* Tetra1.B(q): shape function gradients, constant over the element
EtypeB(q) ==
    ZeroBased(<<
        ZeroBased(<<RInt(-1), RInt(1), RInt(0), RInt(0)>>),
        ZeroBased(<<RInt(-1), RInt(0), RInt(1), RInt(0)>>),
        ZeroBased(<<RInt(-1), RInt(0), RInt(0), RInt(1)>>) >>)

\* Tetra1.ipoints() and Tetra1.iweights(): one point, weight 1/6
EtypeIpoints == << <<Rat(1, 4), Rat(1, 4), Rat(1, 4)>> >>
EtypeIweights == << Rat(1, 6) >>

(***************************************************************************)
(* Materials.                                                              *)
(***************************************************************************)
\* Isotropic.lbd, Isotropic.G
IsoLbd(E, nu) ==
    RDiv(RMul(E, nu), RMul(RAdd(ROne, nu), RSub(ROne, RMul(RInt(2), nu))))
IsoG(E, nu) == RDiv(E, RMul(RInt(2), RAdd(ROne, nu)))

\* Isotropic.C
IsotropicC(E, nu) ==
    LET lbd == IsoLbd(E, nu)
        G == IsoG(E, nu)
        n == RAdd(lbd, RMul(RInt(2), G))
        z == RZero
    IN  ZeroBased(<<
            ZeroBased(<<n, lbd, lbd, z, z, z>>),
            ZeroBased(<<lbd, n, lbd, z, z, z>>),
            ZeroBased(<<lbd, lbd, n, z, z, z>>),
            ZeroBased(<<z, z, z, G, z, z>>),
            ZeroBased(<<z, z, z, z, G, z>>),
            ZeroBased(<<z, z, z, z, z, G>>) >>)

\* material.vectorize(n_elem): one stiffness matrix per element
Vectorize(C, N) == [e \in 0..(N - 1) |-> C]

\* material.step(dde, de, ds) for one element of a linear elastic law
MaterialStep(C, dde, de, ds) ==
    LET e_new == Tensor(Add1(de, dde))
    IN  [e_new |-> e_new, s_new |-> Tensor(MatVec(C, e_new, 6, 6)), ddsdde |-> C]

(***************************************************************************)
(* Solid.                                                                  *)
(***************************************************************************)
\* len(elements[0])
Arity == Cardinality(DOMAIN elements[0])
NumNodes == Cardinality(DOMAIN nodes)

\* Solid.__init__, lines 16-23: the element family of an arity
EtypeOf(arity) ==
    IF arity = 4 THEN "Tetra1"
    ELSE IF arity = 8 THEN "Hexa1"
    ELSE IF arity = 10 THEN "Tetra2"
    ELSE IF arity = 20 THEN "Hexa2"
    ELSE NoEtype

\* idx = ((3 * elements).unsqueeze(-1) + arange(3)).reshape(N, -1)
Idx(elems, N, ar) ==
    [e \in 0..(N - 1) |-> [p \in 0..(3 * ar - 1) |-> 3 * elems[e][p \div 3] + (p % 3)]]

\* idx1 = idx.unsqueeze(1).expand(N, idx.shape[1], -1)
Idx1(idx, N, n) ==
    [e \in 0..(N - 1) |-> [p \in 0..(n - 1) |-> [q \in 0..(n - 1) |-> idx[e][q]]]]

\* idx2 = idx.unsqueeze(-1).expand(N, -1, idx.shape[1])
Idx2(idx, N, n) ==
    [e \in 0..(N - 1) |-> [p \in 0..(n - 1) |-> [q \in 0..(n - 1) |-> idx[e][p]]]]

\* indices = torch.stack([idx1, idx2], dim=0)
Indices(elems, N, ar) ==
    LET idx == Idx(elems, N, ar)
    IN  Tensor(ZeroBased(<<Idx1(idx, N, 3 * ar), Idx2(idx, N, 3 * ar)>>))


\* nodes = self.nodes[self.elements, :]  (integrate_step, line 57)
ElementNodes ==
    [e \in 0..(n_elem - 1) |-> [a \in 0..(Arity - 1) |-> nodes[elements[e][a]]]]

\* du = du[self.elements, :].reshape(self.n_elem, -1)  (line 58); du is (n, 3)
ElementDu(du2) ==
    [e \in 0..(n_elem - 1) |->
        [p \in 0..(3 * Arity - 1) |-> du2[elements[e][p \div 3]][p % 3]]]

\* Solid.J, lines 37-38: J = B(q) @ nodes and its determinant, per element
Jacobian(q, elnodes) ==
    Tensor([e \in 0..(n_elem - 1) |-> MatMul(EtypeB(q), elnodes[e], 3, EtypeNodes, 3)])
DetJ(J) == Tensor([e \in 0..(n_elem - 1) |-> Det3(J[e])])

\* mutant: raise only when every element is inverted (torch.all for torch.any)
JRaisesAll(detJ) == \A e \in DOMAIN detJ : RLeq(detJ[e], RZero)

\* Solid.J, line 39: torch.any(detJ <= 0.0)
JRaises(detJ) == \E e \in DOMAIN detJ : RLeq(detJ[e], RZero)

\* Solid.D for one element: B is (3, nodes), the result (6, 3 * nodes)
GradOp(B, nn) ==
    LET z == RZero
        Row(r) ==
            [c \in 0..(3 * nn - 1) |->
                LET a == c \div 3
                    x == c % 3
                IN  CASE r = 0 -> IF x = 0 THEN B[0][a] ELSE z
                      [] r = 1 -> IF x = 1 THEN B[1][a] ELSE z
                      [] r = 2 -> IF x = 2 THEN B[2][a] ELSE z
                      [] r = 3 -> IF x = 0 THEN z ELSE IF x = 1 THEN B[2][a] ELSE B[1][a]
                      [] r = 4 -> IF x = 0 THEN B[2][a] ELSE IF x = 1 THEN z ELSE B[0][a]
                      [] r = 5 -> IF x = 0 THEN B[1][a] ELSE IF x = 1 THEN B[0][a] ELSE z]
    IN  Tensor([r \in 0..5 |-> Row(r)])

\* lines 72-79 for one element: the weighted contributions of one quadrature
\* point, from the gradient operator D, the weight w * detJ and the material's
\* answer st
PointResult(D, wd, st, n) ==
    [epsilon |-> Tensor(Scale1(wd, st.e_new)),
     sigma |-> Tensor(Scale1(wd, st.s_new)),
     f |-> Tensor(Scale1(wd, MatVec(Transpose(D, 6, n), st.s_new, n, 6))),
     k |-> Tensor([p \in 0..(n - 1) |->
            Scale1(wd, MatMul(Transpose(Tensor(MatMul(st.ddsdde, D, 6, 6, n)), 6, n),
                              D, n, 6, n)[p])])]

\* lines 69-70 for one element: dde = D @ du, then material.step(dde, de, ds)
PointFromD(D, wd, C, de, ds, due, n) ==
    PointResult(D, wd, MaterialStep(C, Tensor(MatVec(D, due, 6, n)), de, ds), n)

\* lines 66-67 for one element: B = inv(J) @ etype.B(q), D = self.D(B)
PointContribution(q, w, J, detJ, C, de, ds, due) ==
    PointFromD(GradOp(Tensor(MatMul(Inv3(J), EtypeB(q), 3, 3, EtypeNodes)), EtypeNodes),
               RMul(w, detJ), C, de, ds, due, 3 * EtypeNodes)

\* the accumulators k, f, epsilon, sigma after adding one point's contributions c
Accumulate(acc, c) ==
    [ok |-> TRUE,
     k |-> Tensor([e \in 0..(n_elem - 1) |-> Add2(acc.k[e], c[e].k)]),
     f |-> Tensor([e \in 0..(n_elem - 1) |-> Add1(acc.f[e], c[e].f)]),
     epsilon |-> Tensor([e \in 0..(n_elem - 1) |-> Add1(acc.epsilon[e], c[e].epsilon)]),
     sigma |-> Tensor([e \in 0..(n_elem - 1) |-> Add1(acc.sigma[e], c[e].sigma)])]

\* lines 66-79 at one quadrature point, every element
PointAll(q, w, J, detJ, de, ds, due) ==
    Tensor([e \in 0..(n_elem - 1) |->
        PointContribution(q, w, J[e], detJ[e], material[e], de[e], ds[e], due[e])])

\* Solid.integrate_step: the loop over the quadrature points from point qi on;
\* J and detJ are what self.J(q, nodes) computed at point qi
RECURSIVE IntegrateFrom(_, _, _, _, _)
IntegrateAt(qi, J, detJ, acc, de, ds, due) ==
    IF JRaises(detJ)
    THEN [ok |-> FALSE, err |-> "NegativeJacobian"]
    ELSE IntegrateFrom(qi + 1,
            Accumulate(acc, PointAll(EtypeIpoints[qi], EtypeIweights[qi], J, detJ,
                                     de, ds, due)),
            de, ds, due)

IntegrateWithJ(qi, J, acc, de, ds, due) ==
    IntegrateAt(qi, J, DetJ(J), acc, de, ds, due)

IntegrateFrom(qi, acc, de, ds, due) ==
    IF qi > Len(EtypeIpoints) THEN acc
    ELSE IntegrateWithJ(qi, Jacobian(EtypeIpoints[qi], ElementNodes), acc, de, ds, due)

\* the zero tensors k, f, epsilon, sigma of lines 59-62
ZeroAccumulators(n) ==
    [ok |-> TRUE,
     k |-> [e \in 0..(n_elem - 1) |-> Zeros2(n, n)],
     f |-> Zeros2(n_elem, n),
     epsilon |-> Zeros2(n_elem, 6),
     sigma |-> Zeros2(n_elem, 6)]

\* Solid.integrate_step(de, ds, du): k, f, epsilon, sigma, or the error raised
IntegrateStep(de, ds, du2) ==
    IF etype = NoEtype
    THEN [ok |-> FALSE, err |-> "AttributeError"]
    ELSE IntegrateFrom(1, Tensor(ZeroAccumulators(3 * EtypeNodes)), de, ds,
                       Tensor(ElementDu(du2)))

\* torch.isin(x, con), con a 1-based ascending list of DOF indices
IsIn(x, c) == \E a \in 1..Len(c) : c[a] = x

\* the length of one row of the local-to-global map: 3 * arity
LocalDofs == Cardinality(DOMAIN indices[0][0])

\* mutant: only rows of constrained DOFs are masked out
KeepMaskRowsOnly(row, col, c) == ~IsIn(row, c)

\* assemble_stiffness, line 89: keep an entry iff neither index is constrained
KeepMask(row, col, c) == ~(IsIn(row, c) \/ IsIn(col, c))

\* mutant: the row and column index arrays swapped
FlatEntrySwapped(kk, t) ==
    LET n == LocalDofs
        e == t \div (n * n)
        p == (t \div n) % n
        q == t % n
    IN  <<indices[1][e][p][q], indices[0][e][p][q], kk[e][p][q]>>

\* assemble_stiffness, lines 86-87: entry t of indices.reshape((2, -1)) and of
\* k.ravel(), as <<row, column, value>>
FlatEntry(kk, t) ==
    LET n == LocalDofs
        e == t \div (n * n)
        p == (t \div n) % n
        q == t % n
    IN  <<indices[0][e][p][q], indices[1][e][p][q], kk[e][p][q]>>

\* the sum of vals[a] over the positions a in S
RECURSIVE SumOver(_, _)
SumOver(vals, S) ==
    IF S = {} THEN RZero
    ELSE LET a == CHOOSE x \in S : TRUE
         IN  RAdd(vals[a], SumOver(vals, S \ {a}))

\* torch.sparse_coo_tensor(entries, size).coalesce(), seen densely: the values of
\* equal (row, column) pairs are summed, every other cell is 0
Coalesce(entries, size) ==
    LET vals == [a \in 1..Len(entries) |-> entries[a][3]]
        InRow(r) == {a \in 1..Len(entries) : entries[a][1] = r}
    IN  [r \in 0..(size - 1) |->
            LET rowset == InRow(r)
            IN  [c \in 0..(size - 1) |->
                    SumOver(vals, {a \in rowset : entries[a][2] = c})]]

\* Solid.assemble_stiffness(k, con)
AssembleStiffness(kk, c) ==
    LET n == LocalDofs
        T == n_elem * n * n
        all == [t \in 1..T |-> FlatEntry(kk, t - 1)]
        Kept(x) == KeepMask(x[1], x[2], c)
        diag == [a \in 1..Len(c) |-> <<c[a], c[a], ROne>>]
        entries == Tensor(SelectSeq(all, Kept) \o diag)
    IN  Tensor(Coalesce(entries, n_dofs))

\* Solid.assemble_force(f): F.index_add_(0, indices[0, :, 0, :].ravel(), f.ravel())
AssembleForce(ff) ==
    LET n == LocalDofs
        T == n_elem * n
        idx == Tensor([t \in 1..T |-> indices[0][(t - 1) \div n][0][(t - 1) % n]])
        vals == Tensor([t \in 1..T |-> ff[(t - 1) \div n][(t - 1) % n]])
    IN  Tensor([x \in 0..(n_dofs - 1) |-> SumOver(vals, {t \in 1..T : idx[t] = x})])

\* sparse_solve(K, b): Gauss-Jordan elimination on the augmented matrix
RECURSIVE Eliminate(_, _, _)
Eliminate(A, n, c) ==
    IF c = n THEN [ok |-> TRUE, x |-> [r \in 0..(n - 1) |-> A[r][n]]]
    ELSE
        LET piv == {r \in c..(n - 1) : A[r][c][1] # 0}
        IN  IF piv = {} THEN [ok |-> FALSE, err |-> "LinearSolveError"]
            ELSE
                LET p == CHOOSE r \in piv : \A r2 \in piv : r <= r2
                    sw == [A EXCEPT ![c] = A[p], ![p] = A[c]]
                    prow == Tensor([x \in 0..n |-> RDiv(sw[c][x], sw[c][c])])
                    next == [r \in 0..(n - 1) |->
                                IF r = c THEN prow
                                ELSE IF sw[r][c][1] = 0 THEN sw[r]
                                ELSE [x \in 0..n |->
                                        RSub(sw[r][x], RMul(sw[r][c], prow[x]))]]
                IN  Eliminate(Tensor(next), n, c + 1)

SparseSolve(KK, b) ==
    LET n == n_dofs
        A == Tensor([r \in 0..(n - 1) |->
                [x \in 0..n |-> IF x < n THEN KK[r][x] ELSE b[r]]])
    IN  Eliminate(A, n, 0)

\* con = torch.nonzero(self.constraints.ravel()).ravel(): ascending DOF indices
RECURSIVE Ascending(_)
Ascending(S) ==
    IF S = {} THEN <<>>
    ELSE LET m == CHOOSE x \in S : \A y \in S : x <= y
         IN  <<m>> \o Ascending(S \ {m})
NonZero(flags) == Ascending({x \in DOMAIN flags : flags[x]})

\* du[con] = DU[con]  (line 123)
ApplyPrescribed(d, D, c) == [x \in DOMAIN d |-> IF IsIn(x, c) THEN D[x] ELSE d[x]]

\* mutant: the constrained entries of the residual are left in place
ResidualNotZeroed(Fi, Fe, c) == Sub1(Fi, Fe)

\* residual = F_int - F_ext; residual[con] = 0.0  (lines 134-135)
Residual(Fi, Fe, c) ==
    [x \in DOMAIN Fi |-> IF IsIn(x, c) THEN RZero ELSE RSub(Fi[x], Fe[x])]

\* torch.linalg.norm(residual), squared
NormSq(r) == RSumTo([x \in DOMAIN r |-> RMul(r[x], r[x])], Cardinality(DOMAIN r))


(***************************************************************************)
(* Inputs.                                                                 *)
(***************************************************************************)
\* largest max_iter tried, and the number of equal parts the load is cut into
MaxIter == 3
NumBreak == 2

P(x, y, z) == ZeroBased(<<RInt(x), RInt(y), RInt(z)>>)
El(t) == ZeroBased(t)

TetNodes == ZeroBased(<<P(0, 0, 0), P(2, 0, 0), P(0, 1, 0), P(0, 0, 1)>>)
FlatNodes == ZeroBased(<<P(0, 0, 0), P(2, 0, 0), P(0, 1, 0), P(2, 1, 0)>>)
TwoTetNodes ==
    ZeroBased(<<P(0, 0, 0), P(1, 0, 0), P(0, 1, 0), P(0, 0, 1), P(1, 1, 1)>>)
TriNodes == ZeroBased(<<P(0, 0, 0), P(1, 0, 0), P(0, 1, 0)>>)
CubeNodes ==
    ZeroBased(<<P(0, 0, 0), P(1, 0, 0), P(1, 1, 0), P(0, 1, 0),
                P(0, 0, 1), P(1, 0, 1), P(1, 1, 1), P(0, 1, 1)>>)

\* one well-shaped tetrahedron; the same with two nodes swapped (inverted);
\* a flat one (coincident plane); two tetrahedra sharing a face, well-shaped
\* and with the second inverted; a triangle and a hexahedron
TetMesh == [nodes |-> TetNodes, elements |-> ZeroBased(<<El(<<0, 1, 2, 3>>)>>)]
InvertedMesh == [nodes |-> TetNodes, elements |-> ZeroBased(<<El(<<0, 2, 1, 3>>)>>)]
FlatMesh == [nodes |-> FlatNodes, elements |-> ZeroBased(<<El(<<0, 1, 2, 3>>)>>)]
TwoTetMesh ==
    [nodes |-> TwoTetNodes,
     elements |-> ZeroBased(<<El(<<0, 1, 2, 3>>), El(<<1, 2, 3, 4>>)>>)]
TwoTetInvertedMesh ==
    [nodes |-> TwoTetNodes,
     elements |-> ZeroBased(<<El(<<0, 1, 2, 3>>), El(<<1, 3, 2, 4>>)>>)]
TriMesh == [nodes |-> TriNodes, elements |-> ZeroBased(<<El(<<0, 1, 2>>)>>)]
HexMesh ==
    [nodes |-> CubeNodes, elements |-> ZeroBased(<<El(<<0, 1, 2, 3, 4, 5, 6, 7>>)>>)]

Meshes == {TetMesh, InvertedMesh, FlatMesh, TwoTetMesh, TwoTetInvertedMesh,
           TriMesh, HexMesh}

\* Isotropic(E = 5, nu = 1/4): lbd = 2, G = 2
Materials == {IsotropicC(RInt(5), Rat(1, 4))}

\* boundary data for a mesh of nn nodes: forces, displacements, constraints.
\* Cantilever: every node but the last is fixed, a unit point force on the last.
\* Prescribed: as Cantilever, with the last node's z and one fixed DOF displaced.
\* Unconstrained: no DOF is constrained.
Cantilever(nn) ==
    [forces |-> [n \in 0..(nn - 1) |->
                    IF n = nn - 1 THEN P(0, 0, -1) ELSE P(0, 0, 0)],
     displacements |-> Zeros2(nn, 3),
     constraints |-> [n \in 0..(nn - 1) |-> [c \in 0..2 |-> n < nn - 1]]]
Prescribed(nn) ==
    [forces |-> [n \in 0..(nn - 1) |->
                    IF n = nn - 1 THEN P(0, 1, 0) ELSE P(0, 0, 0)],
     displacements |-> [n \in 0..(nn - 1) |->
                    IF n = nn - 1 THEN ZeroBased(<<RInt(1), RZero, Rat(1, 2)>>)
                    ELSE IF n = 2 THEN ZeroBased(<<Rat(1, 4), RZero, RZero>>)
                    ELSE P(0, 0, 0)],
     constraints |-> [n \in 0..(nn - 1) |->
                    [c \in 0..2 |-> n < nn - 1 \/ c = 2]]]
Unconstrained(nn) ==
    [forces |-> [n \in 0..(nn - 1) |->
                    IF n = nn - 1 THEN P(0, 0, -1) ELSE P(0, 0, 0)],
     displacements |-> Zeros2(nn, 3),
     constraints |-> [n \in 0..(nn - 1) |-> [c \in 0..2 |-> FALSE]]]
Boundaries(nn) == {Cantilever(nn), Prescribed(nn), Unconstrained(nn)}

\* load-factor breakpoints: 0 followed by an ascending choice of k / NumBreak
IncrementLists ==
    {ZeroBased(<<RZero>> \o [a \in 1..Cardinality(S) |->
                    Rat(Ascending(S)[a], NumBreak)]) : S \in SUBSET (1..NumBreak)}
Tolerances == {Rat(1, 1000), RInt(10)}

(***************************************************************************)
(* Actions.                                                                *)
(***************************************************************************)
solveLocals == <<con, histVars, outVars, du, loopVars, stepVars, asmVars, resVars>>

InitCommon ==
    /\ err = "none"
    /\ n_dofs = 0 /\ n_elem = 0
    /\ forces = Unbound /\ displacements = Unbound /\ constraints = Unbound
    /\ etype = NoEtype /\ indices = Unbound
    /\ increments = Unbound /\ max_iter = 0 /\ tol = RZero
    /\ con = Unbound /\ epsilon = Unbound /\ sigma = Unbound
    /\ f = Unbound /\ u = Unbound /\ du = Unbound
    /\ i = 0 /\ j = 0 /\ F_ext = Unbound /\ DU = Unbound
    /\ k = Unbound /\ f_int = Unbound /\ epsilon_new = Unbound /\ sigma_new = Unbound
    /\ K = Unbound /\ F_int = Unbound /\ residual = Unbound /\ res_norm_sq = RZero
    /\ ret = Unbound /\ prev = Unbound
    /\ n_integrate = 0 /\ n_assemble_stiffness = 0
    /\ n_assemble_force = 0 /\ n_sparse_solve = 0

\* the call Solid(nodes, elements, material) is about to run
Init ==
    /\ pc = "new"
    /\ \E m \in Meshes : nodes = m.nodes /\ elements = m.elements
    /\ material \in Materials
    /\ InitCommon
    /\ ortho = Unbound /\ C_voigt = Unbound

\* Solid.__init__
Construct ==
    /\ pc = "new"
    /\ n_dofs' = 3 * NumNodes
    /\ n_elem' = Cardinality(DOMAIN elements)
    /\ forces' = Zeros2(NumNodes, 3)
    /\ displacements' = Zeros2(NumNodes, 3)
    /\ constraints' = [n \in 0..(NumNodes - 1) |-> [c \in 0..2 |-> FALSE]]
    /\ etype' = EtypeOf(Arity)
    /\ material' = Vectorize(material, Cardinality(DOMAIN elements))
    /\ indices' = Indices(elements, Cardinality(DOMAIN elements), Arity)
    /\ pc' = "constructed"
    /\ UNCHANGED <<err, nodes, elements, argVars, solveLocals, ret, prev,
                   countVars, matVars>>

\* the caller fills in solid.forces, solid.displacements, solid.constraints
SetBoundaryTo(b) ==
    /\ pc = "constructed"
    /\ forces' = b.forces
    /\ displacements' = b.displacements
    /\ constraints' = b.constraints
    /\ pc' = "ready"
    /\ UNCHANGED <<err, nodes, elements, material, n_dofs, n_elem, etype, indices,
                   argVars, solveLocals, ret, prev, countVars, matVars>>

\* Solid.solve, lines 104-114: entry
SolveEnter(incs, m, t) ==
    /\ etype \in {"Tetra1", NoEtype}
    /\ increments' = incs /\ max_iter' = m /\ tol' = t
    /\ con' = NonZero(Ravel2(constraints, NumNodes, 3))
    /\ epsilon' = Zeros2(n_elem, 6)
    /\ sigma' = Zeros2(n_elem, 6)
    /\ f' = Zeros2(NumNodes, 3)
    /\ u' = Zeros2(NumNodes, 3)
    /\ du' = Zeros1(n_dofs)
    /\ i' = 1 /\ j' = 0
    /\ F_ext' = Unbound /\ DU' = Unbound
    /\ k' = Unbound /\ f_int' = Unbound
    /\ epsilon_new' = Unbound /\ sigma_new' = Unbound
    /\ K' = Unbound /\ F_int' = Unbound
    /\ residual' = Unbound /\ res_norm_sq' = RZero
    /\ n_integrate' = 0 /\ n_assemble_stiffness' = 0
    /\ n_assemble_force' = 0 /\ n_sparse_solve' = 0
    /\ ret' = Unbound
    /\ pc' = "loop_i"
    /\ UNCHANGED <<err, solidVars, matVars>>

SetBoundary == \E b \in Boundaries(NumNodes) : SetBoundaryTo(b)

Solve ==
    /\ pc = "ready"
    /\ \E incs \in IncrementLists, m \in 0..MaxIter, t \in Tolerances :
        SolveEnter(incs, m, t)
    /\ UNCHANGED prev

\* for i in range(1, len(increments))  (line 116)
OuterLoopContinues == i < Cardinality(DOMAIN increments)

\* mutant: the iteration stops once the residual norm is below tol
InnerLoopContinuesTol ==
    j < max_iter /\ ~(j > 0 /\ RLess(res_norm_sq, RMul(tol, tol)))

\* for j in range(max_iter)  (line 122)
InnerLoopContinues == j < max_iter

\* lines 118-121: the increment's share of the load
IncrementSetup ==
    /\ pc = "loop_i" /\ OuterLoopContinues
    /\ LET inc == RSub(increments[i], increments[i - 1])
       IN  /\ F_ext' = Scale1(inc, Ravel2(forces, NumNodes, 3))
           /\ DU' = Scale1(inc, Ravel2(displacements, NumNodes, 3))
    /\ j' = 0
    /\ pc' = "loop_j"
    /\ UNCHANGED <<err, solidVars, argVars, con, histVars, outVars, du, i,
                   stepVars, asmVars, resVars, ret, prev, countVars, matVars>>

\* the assignments that follow integrate_step's return r, or its raise
IntegrateOutcome(r) ==
    IF r.ok
    THEN /\ k' = r.k /\ f_int' = r.f
         /\ epsilon_new' = r.epsilon /\ sigma_new' = r.sigma
         /\ pc' = "integrated" /\ err' = err
    ELSE /\ UNCHANGED stepVars
         /\ pc' = "error" /\ err' = r.err

IntegrateWith(d) ==
    /\ du' = d
    /\ IntegrateOutcome(IntegrateStep(epsilon, sigma, Reshape2(d, NumNodes, 3)))

\* mutant: the iteration writes its strain and stress into the history buffers
IntegrateInPlace ==
    /\ pc = "loop_j" /\ InnerLoopContinues
    /\ IntegrateWith(Tensor(ApplyPrescribed(du, DU, con)))
    /\ epsilon' = epsilon_new' /\ sigma' = sigma_new'
    /\ n_integrate' = n_integrate + 1
    /\ UNCHANGED <<solidVars, argVars, con, outVars, loopVars,
                   asmVars, resVars, ret, prev,
                   n_assemble_stiffness, n_assemble_force, n_sparse_solve, matVars>>

\* lines 123-127: du[con] = DU[con], then integrate_step(epsilon, sigma, du)
Integrate ==
    /\ pc = "loop_j" /\ InnerLoopContinues
    /\ IntegrateWith(Tensor(ApplyPrescribed(du, DU, con)))
    /\ n_integrate' = n_integrate + 1
    /\ UNCHANGED <<solidVars, argVars, con, histVars, outVars, loopVars,
                   asmVars, resVars, ret, prev,
                   n_assemble_stiffness, n_assemble_force, n_sparse_solve, matVars>>

\* lines 130-131: K = assemble_stiffness(k, con); F_int = assemble_force(f_int)
Assemble ==
    /\ pc = "integrated"
    /\ K' = AssembleStiffness(k, con)
    /\ F_int' = AssembleForce(f_int)
    /\ n_assemble_stiffness' = n_assemble_stiffness + 1
    /\ n_assemble_force' = n_assemble_force + 1
    /\ pc' = "assembled"
    /\ UNCHANGED <<err, solidVars, argVars, con, histVars, outVars, du, loopVars,
                   stepVars, resVars, ret, prev, n_integrate, n_sparse_solve, matVars>>

\* lines 134-140: the residual, its norm, and du -= sparse_solve(K, residual)
ResidualSolve ==
    /\ pc = "assembled"
    /\ LET r == Tensor(Residual(F_int, F_ext, con))
           x == SparseSolve(K, r)
       IN  /\ residual' = r
           /\ res_norm_sq' = NormSq(r)
           /\ n_sparse_solve' = n_sparse_solve + 1
           /\ IF x.ok
              THEN /\ du' = Sub1(du, x.x)
                   /\ j' = j + 1
                   /\ pc' = "loop_j" /\ err' = err
              ELSE /\ UNCHANGED <<du, j>>
                   /\ pc' = "error" /\ err' = x.err
    /\ UNCHANGED <<solidVars, argVars, con, histVars, outVars, i, F_ext, DU,
                   stepVars, asmVars, ret, prev,
                   n_integrate, n_assemble_stiffness, n_assemble_force, matVars>>

\* lines 143-146: the increment is committed
Commit ==
    /\ pc = "loop_j" /\ ~InnerLoopContinues
    /\ IF epsilon_new = Unbound
       THEN /\ pc' = "error" /\ err' = "UnboundLocalError"
            /\ UNCHANGED <<histVars, outVars, i>>
       ELSE /\ epsilon' = epsilon_new
            /\ sigma' = sigma_new
            /\ f' = Reshape2(F_int, NumNodes, 3)
            /\ u' = Add2(u, Reshape2(du, NumNodes, 3))
            /\ i' = i + 1
            /\ pc' = "loop_i" /\ err' = err
    /\ UNCHANGED <<solidVars, argVars, con, du, j, F_ext, DU, stepVars, asmVars,
                   resVars, ret, prev, countVars, matVars>>

\* line 148: return u, f, sigma, epsilon
Return ==
    /\ pc = "loop_i" /\ ~OuterLoopContinues
    /\ ret' = [u |-> u, f |-> f, sigma |-> sigma, epsilon |-> epsilon]
    /\ pc' = "done"
    /\ UNCHANGED <<err, solidVars, argVars, solveLocals, prev, countVars, matVars>>

SolveStep == IncrementSetup \/ Integrate \/ Assemble \/ ResidualSolve \/ Commit \/ Return

Next == Construct \/ SetBoundary \/ Solve \/ SolveStep

Spec == Init /\ [][Next]_vars


(***************************************************************************)
(* Two successive solve calls on one linear-elastic cantilever: the first  *)
(* applies the whole load in one increment, the second is any call.        *)
(***************************************************************************)
InitPair ==
    /\ pc = "new"
    /\ nodes = TetMesh.nodes /\ elements = TetMesh.elements
    /\ material \in Materials
    /\ InitCommon
    /\ ortho = Unbound /\ C_voigt = Unbound

SetCantilever == SetBoundaryTo(Cantilever(NumNodes))

WholeLoad == ZeroBased(<<RZero, ROne>>)
PairIters == (1..MaxIter) \cup {1, 5}

SolveFirst ==
    /\ pc = "ready" /\ prev = Unbound
    /\ \E m \in 1..MaxIter : SolveEnter(WholeLoad, m, Rat(1, 1000))
    /\ UNCHANGED prev

\* the caller keeps the first result and calls solve again
SolveAgain ==
    /\ pc = "done" /\ prev = Unbound
    /\ prev' = [increments |-> increments, max_iter |-> max_iter, ret |-> ret]
    /\ \E incs \in IncrementLists, m \in PairIters : SolveEnter(incs, m, Rat(1, 1000))

NextPair == Construct \/ SetCantilever \/ SolveFirst \/ SolveStep \/ SolveAgain

SpecPair == InitPair /\ [][NextPair]_vars

(***************************************************************************)
(* Orthotropic (materials.py).                                             *)
(***************************************************************************)
\* largest shear modulus tried
MaxModulus == 3

\* Orthotropic.__init__: the fields of the object
OrthotropicNew(E_1, E_2, E_3, nu_12, nu_13, nu_23, G_12, G_13, G_23) ==
    LET nu_21 == RMul(RDiv(E_2, E_1), nu_12)
        nu_31 == RMul(RDiv(E_3, E_1), nu_13)
        nu_32 == RMul(RDiv(E_3, E_2), nu_23)
        F == RDiv(ROne,
                RSub(RSub(RSub(RSub(ROne, RMul(nu_12, nu_21)), RMul(nu_13, nu_31)),
                          RMul(nu_23, nu_32)),
                     RMul(RInt(2), RMul(nu_21, RMul(nu_32, nu_13)))))
        C0000 == RMul(RMul(E_1, RSub(ROne, RMul(nu_23, nu_32))), F)
        C1111 == RMul(RMul(E_2, RSub(ROne, RMul(nu_13, nu_31))), F)
        C2222 == RMul(RMul(E_3, RSub(ROne, RMul(nu_12, nu_21))), F)
        C0011 == RMul(RMul(E_1, RAdd(nu_21, RMul(nu_31, nu_23))), F)
        C0022 == RMul(RMul(E_1, RAdd(nu_31, RMul(nu_21, nu_32))), F)
        C1122 == RMul(RMul(E_2, RAdd(nu_32, RMul(nu_12, nu_31))), F)
        Entry(a, b, c, d) ==
            LET x == <<a, b, c, d>>
            IN  IF x = <<0, 0, 0, 0>> THEN C0000
                ELSE IF x = <<1, 1, 1, 1>> THEN C1111
                ELSE IF x = <<2, 2, 2, 2>> THEN C2222
                ELSE IF x \in {<<0, 0, 1, 1>>, <<1, 1, 0, 0>>} THEN C0011
                ELSE IF x \in {<<0, 0, 2, 2>>, <<2, 2, 0, 0>>} THEN C0022
                ELSE IF x \in {<<1, 1, 2, 2>>, <<2, 2, 1, 1>>} THEN C1122
                ELSE IF x \in {<<0, 1, 0, 1>>, <<1, 0, 1, 0>>,
                               <<0, 1, 1, 0>>, <<1, 0, 0, 1>>} THEN G_12
                ELSE IF x \in {<<0, 2, 0, 2>>, <<2, 0, 2, 0>>,
                               <<0, 2, 2, 0>>, <<2, 0, 0, 2>>} THEN G_13
                ELSE IF x \in {<<1, 2, 1, 2>>, <<2, 1, 2, 1>>,
                               <<1, 2, 2, 1>>, <<2, 1, 1, 2>>} THEN G_23
                ELSE RZero
    IN  [E_1 |-> E_1, E_2 |-> E_2, E_3 |-> E_3,
         nu_12 |-> nu_12, nu_21 |-> nu_21, nu_13 |-> nu_13, nu_31 |-> nu_31,
         nu_23 |-> nu_23, nu_32 |-> nu_32,
         G_12 |-> G_12, G_13 |-> G_13, G_23 |-> G_23,
         C |-> [a \in 0..2 |-> [b \in 0..2 |-> [c \in 0..2 |-> [d \in 0..2 |->
                    Entry(a, b, c, d)]]]]]

\* Orthotropic.C(): the 6 x 6 matrix built from self._C
OrthotropicC(o) ==
    LET c == o.C
        z == RZero
    IN  ZeroBased(<<
            ZeroBased(<<c[0][0][0][0], c[0][0][1][1], c[0][0][2][2], z, z, z>>),
            ZeroBased(<<c[1][1][0][0], c[1][1][1][1], c[1][1][2][2], z, z, z>>),
            ZeroBased(<<c[2][2][0][0], c[2][2][1][1], c[2][2][2][2], z, z, z>>),
            ZeroBased(<<z, z, z, c[0][1][0][1], z, z>>),
            ZeroBased(<<z, z, z, z, c[0][2][0][2], z>>),
            ZeroBased(<<z, z, z, z, z, c[1][2][1][2]>>) >>)

Moduli == {RInt(x) : x \in 1..MaxModulus}
Stiffnesses == {RInt(4), RInt(8)}

\* the arguments of Orthotropic(...) have been chosen
InitMaterial ==
    /\ pc = "material_args"
    /\ nodes = Unbound /\ elements = Unbound /\ material = Unbound
    /\ InitCommon
    /\ \E E_1 \in Stiffnesses, E_2 \in Stiffnesses,
          G_12 \in Moduli, G_13 \in Moduli, G_23 \in Moduli :
            ortho = <<E_1, E_2, RInt(4), Rat(1, 4), Rat(1, 4), Rat(1, 4),
                      G_12, G_13, G_23>>
    /\ C_voigt = Unbound

\* mat = Orthotropic(E_1, ..., G_23)
OrthotropicInit ==
    /\ pc = "material_args"
    /\ ortho' = OrthotropicNew(ortho[1], ortho[2], ortho[3], ortho[4], ortho[5],
                               ortho[6], ortho[7], ortho[8], ortho[9])
    /\ pc' = "material"
    /\ UNCHANGED <<err, solidVars, argVars, solveLocals, ret, prev, countVars, C_voigt>>

\* mat.C()
OrthotropicCall ==
    /\ pc = "material"
    /\ C_voigt' = OrthotropicC(ortho)
    /\ pc' = "material_C"
    /\ UNCHANGED <<err, solidVars, argVars, solveLocals, ret, prev, countVars, ortho>>

NextMaterial == OrthotropicInit \/ OrthotropicCall

SpecMaterial == InitMaterial /\ [][NextMaterial]_vars

(***************************************************************************)
(* assemble_stiffness and assemble_force called on their own, with element *)
(* matrices and a list of constrained DOFs chosen by the caller.           *)
(***************************************************************************)
\* most nodes whose DOFs are constrained together
MaxConNodes == 2

\* element matrices: all entries distinct; symmetric; all ones
ElementMatrices(N, n) ==
    { [e \in 0..(N - 1) |-> [p \in 0..(n - 1) |-> [q \in 0..(n - 1) |->
            RInt(1 + (e * n + p) * n + q)]]],
      [e \in 0..(N - 1) |-> [p \in 0..(n - 1) |-> [q \in 0..(n - 1) |->
            Rat(1 + e + p + q, 2)]]],
      [e \in 0..(N - 1) |-> [p \in 0..(n - 1) |-> [q \in 0..(n - 1) |-> ROne]]] }
ElementForces(N, n) ==
    { [e \in 0..(N - 1) |-> [p \in 0..(n - 1) |-> RInt(1 + e * n + p)]] }

\* constrained DOFs: the chosen components of the chosen nodes
ConLists(nn) ==
    { Ascending({x \in 0..(3 * nn - 1) : (x \div 3) \in ns /\ (x % 3) \in cs}) :
        ns \in {S \in SUBSET (0..(nn - 1)) : Cardinality(S) <= MaxConNodes},
        cs \in {{0, 1, 2}, {1}} }

\* a constructed Solid and the arguments of the assembly calls
InitAssemble ==
    /\ pc = "assemble"
    /\ err = "none"
    /\ \E m \in {TetMesh, TwoTetMesh} :
        /\ nodes = m.nodes /\ elements = m.elements
        /\ n_dofs = 3 * Cardinality(DOMAIN m.nodes)
        /\ n_elem = Cardinality(DOMAIN m.elements)
        /\ forces = Zeros2(Cardinality(DOMAIN m.nodes), 3)
        /\ displacements = Zeros2(Cardinality(DOMAIN m.nodes), 3)
        /\ constraints = [n \in DOMAIN m.nodes |-> [c \in 0..2 |-> FALSE]]
        /\ etype = EtypeOf(Cardinality(DOMAIN m.elements[0]))
        /\ indices = Indices(m.elements, Cardinality(DOMAIN m.elements),
                             Cardinality(DOMAIN m.elements[0]))
        /\ \E C \in Materials : material = Vectorize(C, Cardinality(DOMAIN m.elements))
        /\ k \in ElementMatrices(Cardinality(DOMAIN m.elements), 12)
        /\ f_int \in ElementForces(Cardinality(DOMAIN m.elements), 12)
        /\ con \in ConLists(Cardinality(DOMAIN m.nodes))
    /\ increments = Unbound /\ max_iter = 0 /\ tol = RZero
    /\ epsilon = Unbound /\ sigma = Unbound
    /\ f = Unbound /\ u = Unbound /\ du = Unbound
    /\ i = 0 /\ j = 0 /\ F_ext = Unbound /\ DU = Unbound
    /\ epsilon_new = Unbound /\ sigma_new = Unbound
    /\ K = Unbound /\ F_int = Unbound /\ residual = Unbound /\ res_norm_sq = RZero
    /\ ret = Unbound /\ prev = Unbound
    /\ n_integrate = 0 /\ n_assemble_stiffness = 0
    /\ n_assemble_force = 0 /\ n_sparse_solve = 0
    /\ ortho = Unbound /\ C_voigt = Unbound

\* K = solid.assemble_stiffness(k, con)
AssembleStiffnessCall ==
    /\ pc = "assemble" /\ K = Unbound
    /\ K' = AssembleStiffness(k, con)
    /\ n_assemble_stiffness' = n_assemble_stiffness + 1
    /\ UNCHANGED <<pc, err, solidVars, argVars, con, histVars, outVars, du, loopVars,
                   stepVars, F_int, resVars, ret, prev,
                   n_integrate, n_assemble_force, n_sparse_solve, matVars>>

\* F = solid.assemble_force(f)
AssembleForceCall ==
    /\ pc = "assemble" /\ F_int = Unbound
    /\ F_int' = AssembleForce(f_int)
    /\ n_assemble_force' = n_assemble_force + 1
    /\ UNCHANGED <<pc, err, solidVars, argVars, con, histVars, outVars, du, loopVars,
                   stepVars, K, resVars, ret, prev,
                   n_integrate, n_assemble_stiffness, n_sparse_solve, matVars>>

NextAssemble == AssembleStiffnessCall \/ AssembleForceCall

SpecAssemble == InitAssemble /\ [][NextAssemble]_vars


(***************************************************************************)
(* Properties.                                                             *)
(***************************************************************************)
NumIncrements == Cardinality(DOMAIN increments)
InSolve == pc \in {"loop_i", "loop_j", "integrated", "assembled", "done", "error"}

\* C1: for the linear-elastic cantilever solved with increments = [0, 1], the
\* whole tuple (u, f, sigma, epsilon) returned with max_iter = 1 equals the one
\* returned with max_iter = 5.
C1_ResultIndependentOfMaxIter ==
    (/\ pc = "done" /\ prev # Unbound
     /\ prev.increments = WholeLoad /\ increments = WholeLoad
     /\ prev.max_iter = 1 /\ max_iter = 5)
        => ret = prev.ret

\* C2: solve runs the Newton-Raphson body exactly max_iter times per increment:
\* when increment i is reached, and when solve returns, it has made exactly
\* (i - 1) * max_iter integrate, assemble and linear-solve rounds, whatever tol
\* and the residual norm are; no error it raises comes from tol.
C2_FixedIterationCount ==
    /\ (pc \in {"loop_i", "done"} /\ increments # Unbound) =>
            /\ n_integrate = (i - 1) * max_iter
            /\ n_assemble_stiffness = (i - 1) * max_iter
            /\ n_assemble_force = (i - 1) * max_iter
            /\ n_sparse_solve = (i - 1) * max_iter
    /\ pc = "done" => i = NumIncrements
    /\ (pc = "loop_j" /\ ~(j < max_iter)) => j = max_iter
    /\ pc = "error" =>
            err \in {"AttributeError", "NegativeJacobian", "LinearSolveError",
                     "UnboundLocalError"}

\* C2 witness: a solve of two increments returned after four rounds although the
\* residual norm was below tol
C2_Witness ==
    /\ pc = "done" /\ NumIncrements = 3 /\ max_iter = 2
    /\ n_sparse_solve = 4
    /\ RLess(res_norm_sq, RMul(tol, tol))

\* C3: the matrix assemble_stiffness returns is n_dofs x n_dofs, and for every
\* constrained DOF c its diagonal entry is exactly 1 and the rest of row c and
\* of column c is 0.
C3_ConstrainedIdentity ==
    K # Unbound =>
        /\ DOMAIN K = 0..(n_dofs - 1)
        /\ \A r \in DOMAIN K : DOMAIN K[r] = 0..(n_dofs - 1)
        /\ \A a \in 1..Len(con) :
            /\ K[con[a]][con[a]] = ROne
            /\ \A x \in 0..(n_dofs - 1) :
                x # con[a] => K[con[a]][x] = RZero /\ K[x][con[a]] = RZero

\* C3 witness: K was assembled on the two-element mesh with the x-DOF of node 1,
\* which both elements share, constrained
C3_Witness ==
    /\ K # Unbound /\ n_elem = 2 /\ IsIn(3, con)
    /\ k[0][3][3] # RZero /\ k[1][0][0] # RZero /\ K[3][3] = ROne

\* C4: a Solid whose elements have an arity other than 4, 8, 10 or 20 never
\* gets past construction: the error is raised in __init__, before any solve.
C4_UnsupportedArityFailsAtConstruction ==
    (Arity \notin {4, 8, 10, 20} /\ pc # "new") =>
        (pc = "error" /\ increments = Unbound)

\* some element has a non-positive Jacobian determinant at some quadrature point
BadGeometry ==
    /\ etype = "Tetra1"
    /\ \E qi \in 1..Len(EtypeIpoints), e \in 0..(n_elem - 1) :
        RLeq(Det3(MatMul(EtypeB(EtypeIpoints[qi]), ElementNodes[e], 3, 4, 3)), RZero)

\* C5 as stated: with a non-positive Jacobian determinant somewhere, every call
\* of solve raises before any assemble_stiffness, assemble_force or linear solve
\* and returns no result.
C5_DegenerateAlwaysRaises ==
    (InSolve /\ BadGeometry) =>
        /\ n_assemble_stiffness = 0 /\ n_assemble_force = 0 /\ n_sparse_solve = 0
        /\ pc # "done" /\ ret = Unbound

\* C5 amended: with a non-positive Jacobian determinant somewhere and at least
\* two breakpoints in increments, solve raises before any assemble_stiffness,
\* assemble_force or linear solve and returns no result; with max_iter >= 1 the
\* error is the Jacobian exception of the first integrate_step.
C5_DegenerateRaisesBeforeAssembly ==
    (InSolve /\ BadGeometry /\ NumIncrements >= 2) =>
        /\ n_assemble_stiffness = 0 /\ n_assemble_force = 0 /\ n_sparse_solve = 0
        /\ pc \in {"loop_i", "loop_j", "error"} /\ ret = Unbound
        /\ i = 1 /\ j = 0
        /\ (pc = "error" /\ max_iter >= 1) =>
                (err = "NegativeJacobian" /\ n_integrate = 1)
        /\ (pc = "error" /\ max_iter = 0) => err = "UnboundLocalError"

\* C5 witness: solve raised the Jacobian exception in its first integrate_step on
\* the two-element mesh whose second element is inverted
C5_Witness ==
    /\ pc = "error" /\ err = "NegativeJacobian" /\ BadGeometry
    /\ n_elem = 2 /\ n_integrate = 1 /\ n_assemble_stiffness = 0

\* C6: within one increment no Newton-Raphson step (integrate, assemble, linear
\* solve) changes the persisted strain and stress; only the commit after the
\* last iteration replaces them, by the strain and stress of that iteration.
C6_HistoryChangesOnlyAtCommit ==
    [][ /\ (pc \in {"integrated", "assembled"} \/ (pc = "loop_j" /\ j < max_iter))
            => (epsilon' = epsilon /\ sigma' = sigma)
        /\ (pc = "loop_j" /\ ~(j < max_iter) /\ pc' = "loop_i")
            => (epsilon' = epsilon_new /\ sigma' = sigma_new /\ j = max_iter)
      ]_vars

\* C6 witness: in the second increment an iteration has computed a strain that
\* differs from the non-zero history it was given
C6_Witness ==
    /\ pc = "integrated" /\ i = 2 /\ j = 1
    /\ epsilon # Zeros2(n_elem, 6) /\ epsilon_new # epsilon /\ sigma_new # sigma

\* C7: in the matrix Orthotropic.C() returns, in Voigt order (xx, yy, zz, yz,
\* xz, xy), entry [3,3] is G_23, entry [4,4] is G_13, entry [5,5] is G_12, and
\* every normal-shear and shear-shear off-diagonal entry is 0.
C7_ShearDiagonalVoigtOrder ==
    pc = "material_C" =>
        /\ C_voigt[3][3] = ortho.G_23
        /\ C_voigt[4][4] = ortho.G_13
        /\ C_voigt[5][5] = ortho.G_12
        /\ \A a \in 0..5, b \in 3..5 :
            a # b => (C_voigt[a][b] = RZero /\ C_voigt[b][a] = RZero)

\* the prescribed displacement of DOF x
PrescribedAt(x) == displacements[x \div 3][x % 3]

\* C8: after every Newton-Raphson iteration the displacement increment at each
\* constrained DOF is (breakpoint delta) x prescribed displacement, and the
\* total displacement solve returns there is
\* (increments[last] - increments[0]) x prescribed displacement.
C8_ConstrainedDisplacement ==
    /\ (pc = "loop_j" /\ j >= 1) =>
            \A a \in 1..Len(con) :
                du[con[a]] = RMul(RSub(increments[i], increments[i - 1]),
                                  PrescribedAt(con[a]))
    /\ pc = "done" =>
            \A a \in 1..Len(con) :
                ret.u[con[a] \div 3][con[a] % 3] =
                    RMul(RSub(increments[NumIncrements - 1], increments[0]),
                         PrescribedAt(con[a]))

\* C8 witness: a solve of two increments and two iterations each returned, with
\* a non-zero displacement at a constrained DOF and at a free one
C8_Witness ==
    /\ pc = "done" /\ NumIncrements = 3 /\ max_iter = 2
    /\ \E a \in 1..Len(con) : ret.u[con[a] \div 3][con[a] % 3] # RZero
    /\ \E x \in 0..(n_dofs - 1) : ~IsIn(x, con) /\ ret.u[x \div 3][x % 3] # RZero

\* the local (element, node, component) triples
LocalTriples == (0..(n_elem - 1)) \X (0..(Arity - 1)) \X (0..2)
GlobalDof(t) == 3 * elements[t[1]][t[2]] + t[3]
LocalDof(t) == 3 * t[2] + t[3]

\* the sum of k[e][p][q] over the local entries whose row triple maps to DOF r
\* and whose column triple maps to DOF c
ScatterSum(r, c) ==
    LET S == {x \in LocalTriples \X LocalTriples :
                /\ x[1][1] = x[2][1]
                /\ GlobalDof(x[1]) = r /\ GlobalDof(x[2]) = c}
    IN  SumOver([x \in S |-> k[x[1][1]][LocalDof(x[1])][LocalDof(x[2])]], S)

ForceSum(r) ==
    LET S == {t \in LocalTriples : GlobalDof(t) = r}
    IN  SumOver([t \in S |-> f_int[t[1]][LocalDof(t)]], S)

\* C9 as stated: with no constrained DOF, k[e][p][q] (p = 3a+i, q = 3b+j) is
\* added to K at row 3*elements[e][a]+i and column 3*elements[e][b]+j, equal
\* index pairs summed; f[e][p] is added to F at row 3*elements[e][a]+i.
C9_ScatterRowToRow ==
    /\ (con = <<>> /\ K # Unbound) =>
            \A r \in 0..(n_dofs - 1), c \in 0..(n_dofs - 1) : K[r][c] = ScatterSum(r, c)
    /\ (con = <<>> /\ F_int # Unbound) =>
            \A r \in 0..(n_dofs - 1) : F_int[r] = ForceSum(r)

\* C9 amended: with no constrained DOF, k[e][p][q] (p = 3a+i, q = 3b+j) is
\* added to K at row 3*elements[e][b]+j and column 3*elements[e][a]+i (the
\* transposed position), equal index pairs summed; f[e][p] is added to F at row
\* 3*elements[e][a]+i.
C9_ScatterTransposed ==
    /\ (con = <<>> /\ K # Unbound) =>
            \A r \in 0..(n_dofs - 1), c \in 0..(n_dofs - 1) : K[r][c] = ScatterSum(c, r)
    /\ (con = <<>> /\ F_int # Unbound) =>
            \A r \in 0..(n_dofs - 1) : F_int[r] = ForceSum(r)

\* C9 witness: both assemblies ran without constraints on the two-element mesh
\* with a non-symmetric element matrix; cell (3, 4) received two contributions
C9_Witness ==
    /\ con = <<>> /\ K # Unbound /\ F_int # Unbound /\ n_elem = 2
    /\ k[0][3][4] # k[0][4][3]
    /\ K[3][4] = RAdd(k[0][4][3], k[1][1][0])

\* C10: for the linear-elastic cantilever and max_iter >= 2, the displacement
\* solve returns for increments = [0, a, 1] equals the one it returns for
\* increments = [0, 1].
C10_SubdivisionInvariant ==
    (/\ pc = "done" /\ prev # Unbound
     /\ prev.increments = WholeLoad /\ prev.max_iter >= 2 /\ max_iter >= 2
     /\ NumIncrements = 3
     /\ increments[0] = RZero /\ increments[2] = ROne)
        => ret.u = prev.ret.u

=============================================================================
